---- MODULE Spec2Model ----
(***************************************************************************)
(* stest (crates/stest/src/main.rs): filter a list of paths by a           *)
(* conjunction of file tests, optionally inverted, optionally recursing    *)
(* into directories, and report through stdout and the exit status.        *)
(*                                                                         *)
(* A path is a tuple of one-character strings, <<"d","/","f">> for "d/f".  *)
(* An Option/Result value is a tuple of length 0 (None/Err) or 1 (Some/Ok).*)
(***************************************************************************)
EXTENDS Integers, Sequences, FiniteSets, TLC

(* ---------------------------------------------------------------------- *)
(* Bounds of the checked instances                                         *)
(* ---------------------------------------------------------------------- *)
MaxActive == 2   \* at most this many of the sixteen tests active at once
MaxPaths == 2    \* at most this many positional paths
MaxStdin == 4    \* at most this many bytes on standard input

(* ---------------------------------------------------------------------- *)
(* Option helpers                                                          *)
(* ---------------------------------------------------------------------- *)
None == <<>>
Some(x) == <<x>>

Range(s) == {s[i] : i \in 1..Len(s)}

(* ---------------------------------------------------------------------- *)
(* The filesystem snapshot the run sees                                    *)
(* ---------------------------------------------------------------------- *)
SL == "/"
NL == "\n"
SP == " "

P_d   == <<"d">>
P_df  == <<"d", SL, "f">>
P_dh  == <<"d", SL, ".", "h">>
P_ds  == <<"d", SL, "s">>
P_dsg == <<"d", SL, "s", SL, "g">>
P_dl  == <<"d", SL, "l">>
P_dk  == <<"d", SL, "k">>
P_p   == <<"p">>
P_b   == <<"b">>
P_c   == <<"c">>
P_r   == <<"r">>
P_x   == <<"x">>
P_gone == <<"d", SL, "z">>
PROGRAM == <<"s", "t", "e", "s", "t">>

Node(t, m, l, mt, tg, ch) ==
    [type |-> t, mode |-> m, len |-> l, mtime |-> mt, target |-> tg, children |-> ch]

\* mode holds the permission bits in decimal: 493 = 0o755, 420 = 0o644,
\* 384 = 0o600, 1517 = 0o2755, 2541 = 0o4755, 432 = 0o660, 511 = 0o777.
Nodes ==
    (P_d   :> Node("dir", 493, 4, 2, None, << <<"f">>, <<".", "h">>, <<"s">>, <<"l">>, <<"k">> >>)) @@
    (P_df  :> Node("file", 420, 10, 1, None, <<>>)) @@
    (P_dh  :> Node("file", 384, 0, 2, None, <<>>)) @@
    (P_ds  :> Node("dir", 1517, 4, 3, None, << <<"g">> >>)) @@
    (P_dsg :> Node("file", 2541, 5, 3, None, <<>>)) @@
    (P_dl  :> Node("symlink", 511, 1, 1, Some(P_gone), <<>>)) @@
    (P_dk  :> Node("symlink", 511, 1, 3, Some(P_df), <<>>)) @@
    (P_p   :> Node("fifo", 420, 0, 1, None, <<>>)) @@
    (P_b   :> Node("block", 432, 0, 2, None, <<>>)) @@
    (P_c   :> Node("char", 0, 0, 3, None, <<>>)) @@
    (P_r   :> Node("file", 420, 0, 2, None, <<>>))

KnownPaths == DOMAIN Nodes
AllPaths == KnownPaths \cup {P_x}

\* lstat(2): the entry itself, Err when the path names nothing.
Lstat(path) == IF path \in KnownPaths THEN Some(Nodes[path]) ELSE None

\* stat(2): the entry after following a symbolic link, Err when the path or
\* the link's target names nothing.
Stat(path) ==
    IF path \notin KnownPaths THEN None
    ELSE IF Nodes[path].type # "symlink" THEN Some(Nodes[path])
    ELSE IF Nodes[path].target[1] \in KnownPaths
         THEN Some(Nodes[Nodes[path].target[1]])
         ELSE None

\* the entries read_dir yields for a directory, in the order it yields them
ReadDir(path) == IF Stat(path) # None THEN Stat(path)[1].children ELSE <<>>

Join(dir, name) == dir \o <<SL>> \o name

(* ---------------------------------------------------------------------- *)
(* Bit tests on the mode word                                              *)
(* ---------------------------------------------------------------------- *)
RECURSIVE BitAnd(_, _)
BitAnd(a, b) ==
    IF a = 0 \/ b = 0 THEN 0
    ELSE (a % 2) * (b % 2) + 2 * BitAnd(a \div 2, b \div 2)

S_ISGID == 1024    \* 0o2000
S_ISUID == 2048    \* 0o4000
S_IRALL == 292     \* 0o0444
S_IWALL == 146     \* 0o0222
S_IXALL == 73      \* 0o0111

(* ---------------------------------------------------------------------- *)
(* File: the attribute accessors                                           *)
(* ---------------------------------------------------------------------- *)
meta(path) == Stat(path)

file_type(path) == IF meta(path) # None THEN Some(meta(path)[1].type) ELSE None

mode(path) == IF meta(path) # None THEN Some(meta(path)[1].mode) ELSE None

\* Path::file_name: the last component, None when the path has none
RECURSIVE LastComponent(_)
LastComponent(path) ==
    IF path = <<>> THEN <<>>
    ELSE IF \E i \in 1..Len(path) : path[i] = SL
         THEN LastComponent(Tail(path))
         ELSE path

file_name(path) ==
    LET c == LastComponent(path) IN
    IF c = <<>> \/ c = <<".">> \/ c = <<".", ".">> THEN None ELSE Some(c)

is_hidden(path) == file_name(path) # None /\ Head(file_name(path)[1]) = "."

is_block(path) == file_type(path) # None /\ file_type(path)[1] = "block"

is_char(path) == file_type(path) # None /\ file_type(path)[1] = "char"

is_dir(path) == Stat(path) # None /\ Stat(path)[1].type = "dir"

exists(path) == Stat(path) # None

is_file(path) == Stat(path) # None /\ Stat(path)[1].type = "file"

has_setgid(path) == mode(path) # None /\ BitAnd(mode(path)[1], S_ISGID) # 0

is_symlink_followed(path) == meta(path) # None /\ meta(path)[1].type = "symlink"

is_symlink(path) == Lstat(path) # None /\ Lstat(path)[1].type = "symlink"

is_pipe(path) == file_type(path) # None /\ file_type(path)[1] = "fifo"

is_readable(path) == mode(path) # None /\ BitAnd(mode(path)[1], S_IRALL) # 0

has_setuid(path) == mode(path) # None /\ BitAnd(mode(path)[1], S_ISUID) # 0

is_non_empty(path) == meta(path) # None /\ meta(path)[1].len > 0

is_writable(path) == mode(path) # None /\ BitAnd(mode(path)[1], S_IWALL) # 0

is_executable(path) == mode(path) # None /\ BitAnd(mode(path)[1], S_IXALL) # 0

(* ---------------------------------------------------------------------- *)
(* PartialOrd / PartialEq for File                                         *)
(* ---------------------------------------------------------------------- *)
IntCmp(a, b) == IF a < b THEN "Less" ELSE IF a > b THEN "Greater" ELSE "Equal"

partial_cmp_len(self, other) ==
    IF meta(self) = None THEN None
    ELSE IF meta(other) = None THEN None
    ELSE Some(IntCmp(meta(self)[1].len, meta(other)[1].len))

partial_cmp(self, other) ==
    IF meta(self) = None THEN None
    ELSE IF meta(other) = None THEN None
    ELSE Some(IntCmp(meta(self)[1].mtime, meta(other)[1].mtime))

eq(self, other) == partial_cmp(self, other) = Some("Equal")
gt(self, other) == partial_cmp(self, other) = Some("Greater")
lt(self, other) == partial_cmp(self, other) = Some("Less")

(* ---------------------------------------------------------------------- *)
(* The predicate engine: the condition of test()                           *)
(* ---------------------------------------------------------------------- *)
TestFlags == {"a", "b", "c", "d", "e", "f", "g", "h",
              "n", "o", "p", "r", "s", "u", "w", "x"}
ControlFlags == {"l", "q", "v"}

opt_present(m, f) == f \in m.opts

\* Matches::opt_str: the option's argument, None when the option is absent
\* or was given without one
opt_str(m, f) ==
    IF f \notin m.opts THEN None
    ELSE IF f = "n" THEN m.n
    ELSE IF f = "o" THEN m.o
    ELSE None

newer_than_or_missing(file, new) == new = None \/ gt(file, new[1])

\* new.is_some_and(|n| file > n)
newer_than(file, new) == new # None /\ gt(file, new[1])

\* old.is_some_and(|o| file < o)
older_than(file, old) == old # None /\ lt(file, old[1])

test_cond_no_invert(file, flags, new, old) ==
    /\ (~opt_present(flags, "a") \/ is_hidden(file))
    /\ (~opt_present(flags, "b") \/ is_block(file))
    /\ (~opt_present(flags, "c") \/ is_char(file))
    /\ (~opt_present(flags, "d") \/ is_dir(file))
    /\ (~opt_present(flags, "e") \/ exists(file))
    /\ (~opt_present(flags, "f") \/ is_file(file))
    /\ (~opt_present(flags, "g") \/ has_setgid(file))
    /\ (~opt_present(flags, "h") \/ is_symlink(file))
    /\ (~opt_present(flags, "n") \/ newer_than(file, new))
    /\ (~opt_present(flags, "o") \/ older_than(file, old))
    /\ (~opt_present(flags, "p") \/ is_pipe(file))
    /\ (~opt_present(flags, "r") \/ is_readable(file))
    /\ (~opt_present(flags, "s") \/ is_non_empty(file))
    /\ (~opt_present(flags, "u") \/ has_setuid(file))
    /\ (~opt_present(flags, "w") \/ is_writable(file))
    /\ (~opt_present(flags, "x") \/ is_executable(file))

test_cond_dropped_term(file, flags, new, old) ==
    ( /\ (~opt_present(flags, "a") \/ is_hidden(file))
      /\ (~opt_present(flags, "b") \/ is_block(file))
      /\ (~opt_present(flags, "c") \/ is_char(file))
      /\ (~opt_present(flags, "d") \/ is_dir(file))
      /\ (~opt_present(flags, "e") \/ exists(file))
      /\ (~opt_present(flags, "f") \/ is_file(file))
      /\ (~opt_present(flags, "g") \/ has_setgid(file))
      /\ (~opt_present(flags, "h") \/ is_symlink(file))
      /\ (~opt_present(flags, "n") \/ newer_than(file, new))
      /\ (~opt_present(flags, "o") \/ older_than(file, old))
      /\ (~opt_present(flags, "p") \/ is_pipe(file))
      /\ (~opt_present(flags, "r") \/ is_readable(file))
      /\ (~opt_present(flags, "u") \/ has_setuid(file))
      /\ (~opt_present(flags, "w") \/ is_writable(file))
      /\ (~opt_present(flags, "x") \/ is_executable(file)) )
    # opt_present(flags, "v")

\* the condition of the if in test(): the conjunction != opt_present("v")
test_cond(file, flags, new, old) ==
    ( /\ (~opt_present(flags, "a") \/ is_hidden(file))
      /\ (~opt_present(flags, "b") \/ is_block(file))
      /\ (~opt_present(flags, "c") \/ is_char(file))
      /\ (~opt_present(flags, "d") \/ is_dir(file))
      /\ (~opt_present(flags, "e") \/ exists(file))
      /\ (~opt_present(flags, "f") \/ is_file(file))
      /\ (~opt_present(flags, "g") \/ has_setgid(file))
      /\ (~opt_present(flags, "h") \/ is_symlink(file))
      /\ (~opt_present(flags, "n") \/ newer_than(file, new))
      /\ (~opt_present(flags, "o") \/ older_than(file, old))
      /\ (~opt_present(flags, "p") \/ is_pipe(file))
      /\ (~opt_present(flags, "r") \/ is_readable(file))
      /\ (~opt_present(flags, "s") \/ is_non_empty(file))
      /\ (~opt_present(flags, "u") \/ has_setuid(file))
      /\ (~opt_present(flags, "w") \/ is_writable(file))
      /\ (~opt_present(flags, "x") \/ is_executable(file)) )
    # opt_present(flags, "v")

(* ---------------------------------------------------------------------- *)
(* Program state                                                           *)
(* ---------------------------------------------------------------------- *)
VARIABLES
    args,       \* the command line as getopts sees it: [valid, opts, n, o, free]
    stdin,      \* the bytes on standard input
    pos,        \* how many of them have been read
    matches,    \* the parsed Matches
    newer,      \* Option<File> built from -n's argument
    older,      \* Option<File> built from -o's argument
    paths,      \* Vec<File>: the candidates
    cur,        \* how many candidates the for loop has taken
    stack,      \* the walk's open directory handles, innermost last
    MATCH,      \* static mut MATCH
    stdout,     \* the lines printed so far
    status,     \* the exit status, -1 while running
    pc,         \* "parse", "stdin", "loop", "walk" or "exited"
    evaluated,  \* trace: the calls of test() so far, [path, cand, verdict]
    run,        \* 1 for the first invocation, 2 for the re-run with -v added
    prevOut,    \* stdout of the first invocation, kept for the re-run
    prevEval    \* evaluated of the first invocation, kept for the re-run

vars == <<args, stdin, pos, matches, newer, older, paths, cur, stack, MATCH,
          stdout, status, pc, evaluated, run, prevOut, prevEval>>

NoMatches == [opts |-> {}, n |-> None, o |-> None, free |-> <<>>]

USAGE == <<"u", "s", "a", "g", "e">>

(* ---------------------------------------------------------------------- *)
(* Inputs                                                                  *)
(* ---------------------------------------------------------------------- *)
RECURSIVE SeqsUpTo(_, _)
SeqsUpTo(S, n) ==
    IF n = 0 THEN {<<>>}
    ELSE LET shorter == SeqsUpTo(S, n - 1) IN
         shorter \cup {Append(s, x) : s \in {t \in shorter : Len(t) = n - 1}, x \in S}

RefArgs == {None, Some(P_r), Some(P_x)}

\* a command line getopts accepts: the argument of -n / -o is None unless
\* the option is given
ArgsOf(opts, positional) ==
    \E rn \in (IF "n" \in opts THEN RefArgs ELSE {None}),
       ro \in (IF "o" \in opts THEN RefArgs ELSE {None}) :
        args = [valid |-> TRUE, opts |-> opts, n |-> rn, o |-> ro,
                free |-> <<PROGRAM>> \o positional]

\* any few tests on one path
EngineArgs ==
    \E t \in {s \in SUBSET TestFlags : Cardinality(s) <= MaxActive},
       c \in SUBSET {"q", "v"},
       p \in AllPaths :
        ArgsOf(t \cup c, <<p>>)

\* several paths, with and without recursion
DriverArgs ==
    \E t \in {{}, {"d"}, {"f"}, {"h"}, {"n"}},
       c \in SUBSET ControlFlags,
       ps \in SeqsUpTo({P_d, P_df, P_dl, P_x}, MaxPaths) \ {<<>>} :
        ArgsOf(t \cup c, ps)

\* no positional path: the candidates come from standard input
StdinArgs ==
    \E t \in {{}, {"d"}}, c \in SUBSET {"q", "v"} : ArgsOf(t \cup c, <<>>)

\* a command line getopts rejects
BadArgs ==
    args = [valid |-> FALSE, opts |-> {}, n |-> None, o |-> None,
            free |-> <<PROGRAM>>]

StdinInputs == SeqsUpTo({"d", SP, NL}, MaxStdin)

Fresh ==
    /\ pos = 0
    /\ matches = NoMatches
    /\ newer = None
    /\ older = None
    /\ paths = <<>>
    /\ cur = 0
    /\ stack = <<>>
    /\ MATCH = 0
    /\ stdout = <<>>
    /\ status = -1
    /\ pc = "parse"
    /\ evaluated = <<>>

Init ==
    /\ \/ (EngineArgs \/ DriverArgs \/ BadArgs) /\ stdin = <<>>
       \/ StdinArgs /\ stdin \in StdinInputs
    /\ Fresh
    /\ run = 1
    /\ prevOut = <<>>
    /\ prevEval = <<>>

(* ---------------------------------------------------------------------- *)
(* test(): the effect of one call                                          *)
(* ---------------------------------------------------------------------- *)
\* cand is the top-level candidate the call is made for and next the place
\* the caller continues at; exit(0) never returns to the caller.
test_print_then_exit(file, cand, next) ==
    LET verdict == test_cond(file, matches, newer, older) IN
    /\ evaluated' = Append(evaluated, [path |-> file, cand |-> cand, verdict |-> verdict])
    /\ IF verdict
       THEN /\ MATCH' = 1
            /\ stdout' = Append(stdout, file)
            /\ IF opt_present(matches, "q")
               THEN status' = 0 /\ pc' = "exited"
               ELSE status' = status /\ pc' = next
       ELSE /\ pc' = next
            /\ UNCHANGED <<status, MATCH, stdout>>

test(file, cand, next) ==
    LET verdict == test_cond(file, matches, newer, older) IN
    /\ evaluated' = Append(evaluated, [path |-> file, cand |-> cand, verdict |-> verdict])
    /\ IF verdict
       THEN IF opt_present(matches, "q")
            THEN /\ status' = 0
                 /\ pc' = "exited"
                 /\ UNCHANGED <<MATCH, stdout>>
            ELSE /\ MATCH' = 1
                 /\ stdout' = Append(stdout, file)
                 /\ pc' = next
                 /\ UNCHANGED status
       ELSE /\ pc' = next
            /\ UNCHANGED <<status, MATCH, stdout>>

(* ---------------------------------------------------------------------- *)
(* main(): option parsing and the candidate list                           *)
(* ---------------------------------------------------------------------- *)
\* matches.free.iter().skip(1)
free_paths(m) == Tail(m.free)

Parse ==
    /\ pc = "parse"
    /\ UNCHANGED <<args, stdin, pos, cur, stack, MATCH, evaluated, run, prevOut, prevEval>>
    /\ IF ~args.valid
       THEN /\ stdout' = Append(stdout, USAGE)
            /\ status' = 2
            /\ pc' = "exited"
            /\ UNCHANGED <<matches, newer, older, paths>>
       ELSE /\ matches' = [opts |-> args.opts, n |-> args.n, o |-> args.o, free |-> args.free]
            /\ newer' = opt_str(matches', "n")
            /\ older' = opt_str(matches', "o")
            /\ paths' = free_paths(matches')
            /\ pc' = IF paths' = <<>> THEN "stdin" ELSE "loop"
            /\ UNCHANGED <<stdout, status>>

IsWhite(c) == c = SP \/ c = NL

RECURSIVE trim_start(_)
trim_start(s) ==
    IF s # <<>> /\ IsWhite(Head(s)) THEN trim_start(Tail(s)) ELSE s

RECURSIVE trim_end(_)
trim_end(s) ==
    IF s # <<>> /\ IsWhite(s[Len(s)]) THEN trim_end(SubSeq(s, 1, Len(s) - 1)) ELSE s

\* str::trim
trim(s) == trim_end(trim_start(s))

\* Stdin::read_line: the bytes up to and including the next newline, or up to
\* the end of the stream
RECURSIVE TakeLine(_)
TakeLine(s) ==
    IF s = <<>> THEN <<>>
    ELSE IF Head(s) = NL THEN <<NL>>
    ELSE <<Head(s)>> \o TakeLine(Tail(s))

read_line(input, at) == TakeLine(SubSeq(input, at + 1, Len(input)))

\* one iteration of the while let loop
ReadLine ==
    /\ pc = "stdin"
    /\ LET line == read_line(stdin, pos) IN
       /\ pos' = pos + Len(line)
       /\ IF Len(line) = 0 \/ line = <<NL>>
          THEN pc' = "loop" /\ paths' = paths
          ELSE pc' = "stdin" /\ paths' = Append(paths, trim(line))
    /\ UNCHANGED <<args, stdin, matches, newer, older, cur, stack, MATCH, stdout,
                   status, evaluated, run, prevOut, prevEval>>

(* ---------------------------------------------------------------------- *)
(* main(): the loop over the candidates and the recursive walk             *)
(* ---------------------------------------------------------------------- *)
\* a directory handle of the walk: the directory and the entries not yet read
Handle(dir) == [dir |-> dir, rest |-> ReadDir(dir)]

\* the walk drops the handles it has read to the end
RECURSIVE PopExhausted(_)
PopExhausted(st) ==
    IF st # <<>> /\ st[Len(st)].rest = <<>>
    THEN PopExhausted(SubSeq(st, 1, Len(st) - 1))
    ELSE st

\* for path in paths, the else branch: the path itself is tested
TestPath ==
    /\ pc = "loop"
    /\ cur < Len(paths)
    /\ LET path == paths[cur + 1] IN
       /\ ~(opt_present(matches, "l") /\ is_dir(path))
       /\ cur' = cur + 1
       /\ test(path, path, "loop")
    /\ UNCHANGED <<args, stdin, pos, matches, newer, older, paths, stack,
                   run, prevOut, prevEval>>

\* for path in paths, the recursive branch: WalkDir::new(path) yields its
\* root first, with the root's directory handle open
WalkStart ==
    /\ pc = "loop"
    /\ cur < Len(paths)
    /\ LET path == paths[cur + 1] IN
       /\ opt_present(matches, "l") /\ is_dir(path)
       /\ cur' = cur + 1
       /\ stack' = <<Handle(path)>>
       /\ test(path, path, "walk")
    /\ UNCHANGED <<args, stdin, pos, matches, newer, older, paths,
                   run, prevOut, prevEval>>

\* the walk's next entry, tested; or the end of the walk
WalkStep ==
    /\ pc = "walk"
    /\ LET st == PopExhausted(stack) IN
       IF st = <<>>
       THEN /\ stack' = <<>>
            /\ pc' = "loop"
            /\ UNCHANGED <<MATCH, stdout, status, evaluated>>
       ELSE LET top == st[Len(st)]
                child == Join(top.dir, Head(top.rest))
                read == [st EXCEPT ![Len(st)].rest = Tail(top.rest)]
            IN /\ stack' = IF Lstat(child) # None /\ Lstat(child)[1].type = "dir"
                           THEN Append(read, Handle(child))
                           ELSE read
               /\ test(child, paths[cur], "walk")
    /\ UNCHANGED <<args, stdin, pos, matches, newer, older, paths, cur,
                   run, prevOut, prevEval>>

exit_status_raw(m) == m

\* (MATCH == 0) as i32
exit_status(m) == IF m = 0 THEN 1 ELSE 0

\* std::process::exit at the end of main
Exit ==
    /\ pc = "loop"
    /\ cur = Len(paths)
    /\ status' = exit_status(MATCH)
    /\ pc' = "exited"
    /\ UNCHANGED <<args, stdin, pos, matches, newer, older, paths, cur, stack,
                   MATCH, stdout, evaluated, run, prevOut, prevEval>>

\* the same command line run again on the same snapshot with -v added
Rerun ==
    /\ pc = "exited"
    /\ run = 1
    /\ args.valid
    /\ "v" \notin args.opts
    /\ "q" \notin args.opts
    /\ run' = 2
    /\ prevOut' = stdout
    /\ prevEval' = evaluated
    /\ args' = [args EXCEPT !.opts = @ \cup {"v"}]
    /\ stdin' = stdin
    /\ pos' = 0
    /\ matches' = NoMatches
    /\ newer' = None
    /\ older' = None
    /\ paths' = <<>>
    /\ cur' = 0
    /\ stack' = <<>>
    /\ MATCH' = 0
    /\ stdout' = <<>>
    /\ status' = -1
    /\ pc' = "parse"
    /\ evaluated' = <<>>

Next ==
    \/ Parse
    \/ ReadLine
    \/ TestPath
    \/ WalkStart
    \/ WalkStep
    \/ Exit
    \/ Rerun

Spec == Init /\ [][Next]_vars

(* ---------------------------------------------------------------------- *)
(* Vocabulary of the properties                                            *)
(* ---------------------------------------------------------------------- *)
Parsed == pc # "parse" /\ args.valid

Inverted == "v" \in matches.opts
Quiet == "q" \in matches.opts
Recursive == "l" \in matches.opts
Active == matches.opts \cap TestFlags

EvaluatedPaths(log) == [i \in 1..Len(log) |-> log[i].path]
SomePositive == \E i \in 1..Len(evaluated) : evaluated[i].verdict

\* the result of one flag's test on an entry
FlagTest(f, file, new, old) ==
    CASE f = "a" -> is_hidden(file)
      [] f = "b" -> is_block(file)
      [] f = "c" -> is_char(file)
      [] f = "d" -> is_dir(file)
      [] f = "e" -> exists(file)
      [] f = "f" -> is_file(file)
      [] f = "g" -> has_setgid(file)
      [] f = "h" -> is_symlink(file)
      [] f = "n" -> newer_than(file, new)
      [] f = "o" -> older_than(file, old)
      [] f = "p" -> is_pipe(file)
      [] f = "r" -> is_readable(file)
      [] f = "s" -> is_non_empty(file)
      [] f = "u" -> has_setuid(file)
      [] f = "w" -> is_writable(file)
      [] f = "x" -> is_executable(file)

\* every order in which the flags of S can be evaluated
Orders(S) == {o \in [1..Cardinality(S) -> S] : Range(o) = S}

\* the tests of an order evaluated one after the other, stopping at the
\* first that fails
RECURSIVE EvalInOrder(_, _, _, _)
EvalInOrder(order, file, new, old) ==
    IF order = <<>> THEN TRUE
    ELSE IF FlagTest(Head(order), file, new, old)
         THEN EvalInOrder(Tail(order), file, new, old)
         ELSE FALSE

\* C1: the verdict of every call of test() is the AND, over the active
\* flags, of that flag's test on the entry, XOR the invert flag; it is the
\* same in whatever order the active tests are evaluated.
C1_VerdictIsConjunctionXorInvert ==
    \A i \in 1..Len(evaluated) :
        LET e == evaluated[i] IN
        /\ e.verdict = ((\A f \in Active : FlagTest(f, e.path, newer, older)) # Inverted)
        /\ \A order \in Orders(Active) :
               e.verdict = (EvalInOrder(order, e.path, newer, older) # Inverted)

C1_Witness ==
    /\ pc = "exited"
    /\ Inverted
    /\ Cardinality(Active) = 2
    /\ \E i \in 1..Len(evaluated) :
           /\ evaluated[i].verdict
           /\ \E f \in Active : FlagTest(f, evaluated[i].path, newer, older)
           /\ \E f \in Active : ~FlagTest(f, evaluated[i].path, newer, older)

\* C2: with quiet mode off, the run with -v added evaluates the same entries
\* as the run without it, and every evaluated entry is printed by exactly one
\* of the two runs.
C2_InvertedRunPrintsComplement ==
    (run = 2 /\ pc = "exited") =>
        /\ EvaluatedPaths(evaluated) = EvaluatedPaths(prevEval)
        /\ Range(stdout) \cap Range(prevOut) = {}
        /\ Range(stdout) \cup Range(prevOut) = Range(EvaluatedPaths(evaluated))

C2_Witness ==
    /\ run = 2
    /\ pc = "exited"
    /\ Recursive
    /\ Len(stdout) >= 2
    /\ Len(prevOut) >= 2

\* C3 (exit status): the status is 2 exactly when parsing failed, and then
\* nothing was evaluated; otherwise it is 0 if some evaluated entry had a
\* positive verdict and 1 if none had.
C3_ExitState ==
    /\ pc # "exited" => status = -1
    /\ pc = "exited" =>
          /\ status = 2 <=> ~args.valid
          /\ ~args.valid => evaluated = <<>>
          /\ args.valid => status = (IF SomePositive THEN 0 ELSE 1)

\* C3 (match state): within one run MATCH only ever goes from 0 to 1, and
\* only in a step in which test() found a positive verdict.
C3_MatchStep ==
    (run' = run /\ MATCH' # MATCH) =>
        /\ MATCH = 0
        /\ MATCH' = 1
        /\ Len(evaluated') = Len(evaluated) + 1
        /\ evaluated'[Len(evaluated')].verdict

\* C3: the exit status is 2 iff parsing fails, else 0 iff some evaluated
\* entry had a positive verdict, else 1; the match state starts false, is
\* only set by a positive verdict and is never reset.
C3_ExitStatus ==
    /\ MATCH = 0
    /\ []C3_ExitState
    /\ [][C3_MatchStep]_vars

C3_Witness ==
    /\ pc = "exited"
    /\ status = 0
    /\ MATCH = 1
    /\ Len(evaluated) >= 2
    /\ evaluated[1].verdict
    /\ ~evaluated[Len(evaluated)].verdict

\* C4: in quiet mode nothing is ever printed; a positive verdict is the last
\* call of test() and ends the process with status 0; a quiet run that ends
\* without a positive verdict ends with status 1.
C4_QuietMode ==
    (Parsed /\ Quiet) =>
        /\ stdout = <<>>
        /\ \A i \in 1..Len(evaluated) :
               evaluated[i].verdict =>
                   i = Len(evaluated) /\ pc = "exited" /\ status = 0
        /\ (pc = "exited" /\ ~SomePositive) => status = 1

C4_Witness ==
    /\ Parsed
    /\ Quiet
    /\ pc = "exited"
    /\ status = 0
    /\ SomePositive
    /\ cur < Len(paths)

IsUnder(path, dir) ==
    /\ Len(path) > Len(dir) + 1
    /\ SubSeq(path, 1, Len(dir) + 1) = dir \o <<SL>>

\* C5: for a directory candidate in recursive mode the entries evaluated are
\* entries under the candidate and never the candidate itself; otherwise the
\* candidate itself is the entry evaluated.
C5_OnlyContentsEvaluated ==
    \A i \in 1..Len(evaluated) :
        LET e == evaluated[i] IN
        IF Recursive /\ is_dir(e.cand)
        THEN e.path # e.cand /\ IsUnder(e.path, e.cand)
        ELSE e.path = e.cand

\* the lines of a byte stream, each without its newline; a last line need
\* not end in a newline
RECURSIVE Lines(_)
Lines(input) ==
    IF input = <<>> THEN <<>>
    ELSE LET line == TakeLine(input) IN
         <<line>> \o Lines(SubSeq(input, Len(line) + 1, Len(input)))

\* the trimmed lines before the first line that is empty after trimming
RECURSIVE UntilBlank(_)
UntilBlank(ls) ==
    IF ls = <<>> \/ trim(Head(ls)) = <<>> THEN <<>>
    ELSE <<trim(Head(ls))>> \o UntilBlank(Tail(ls))

\* C6: without positional paths the candidates are the trimmed lines of
\* standard input before the first blank line or the end of the stream, and
\* no empty path is a candidate; with positional paths standard input is not
\* read.
C6_CandidatesFromStdin ==
    /\ (Parsed /\ Tail(args.free) = <<>> /\ pc # "stdin") =>
          /\ paths = UntilBlank(Lines(stdin))
          /\ \A i \in 1..Len(paths) : paths[i] # <<>>
    /\ (Parsed /\ Tail(args.free) # <<>>) => (pos = 0 /\ paths = Tail(args.free))

MissingReference ==
    \/ "n" \in matches.opts /\ newer = None
    \/ "o" \in matches.opts /\ older = None

QuietExit == Quiet /\ SomePositive

\* C7: when n or o is active without a reference path, that test is false
\* for every entry: no entry matches without -v, every entry matches with
\* -v, and the run goes on to its normal end.
C7_MissingReferenceIsFalse ==
    (Parsed /\ MissingReference) =>
        /\ \A i \in 1..Len(evaluated) : evaluated[i].verdict = Inverted
        /\ status \in {-1, 0, 1}
        /\ (pc = "exited" /\ ~QuietExit) => cur = Len(paths)

C7_Witness ==
    /\ Parsed
    /\ "n" \in matches.opts
    /\ newer = None
    /\ Inverted
    /\ pc = "exited"
    /\ status = 0
    /\ Len(evaluated) >= 2
    /\ evaluated[1].verdict

\* the modification time stat reports for a path, None when stat fails
ModTime(path) == IF Stat(path) = None THEN None ELSE Some(Stat(path)[1].mtime)

BothTimes(a, b) == ModTime(a) # None /\ ModTime(b) # None

References == Range(newer) \cup Range(older)

\* C8: an entry compares with a reference by modification time alone:
\* greater, less and equal hold exactly when both times are available and
\* stand in that relation, none holds when either is unavailable, at most one
\* holds, and the n and o tests are "greater than the n reference" and "less
\* than the o reference".
C8_ComparesModificationTimes ==
    \A i \in 1..Len(evaluated) :
        LET e == evaluated[i] IN
        /\ \A r \in References :
              /\ gt(e.path, r) <=> (BothTimes(e.path, r) /\ ModTime(e.path)[1] > ModTime(r)[1])
              /\ lt(e.path, r) <=> (BothTimes(e.path, r) /\ ModTime(e.path)[1] < ModTime(r)[1])
              /\ eq(e.path, r) <=> (BothTimes(e.path, r) /\ ModTime(e.path)[1] = ModTime(r)[1])
              /\ ~BothTimes(e.path, r) =>
                     ~gt(e.path, r) /\ ~lt(e.path, r) /\ ~eq(e.path, r)
              /\ Cardinality({c \in {"gt", "lt", "eq"} :
                     \/ c = "gt" /\ gt(e.path, r)
                     \/ c = "lt" /\ lt(e.path, r)
                     \/ c = "eq" /\ eq(e.path, r)}) <= 1
        /\ (Active = {"n"} /\ newer # None) =>
              (e.verdict # Inverted) =
                  (BothTimes(e.path, newer[1]) /\ ModTime(e.path)[1] > ModTime(newer[1])[1])
        /\ (Active = {"o"} /\ older # None) =>
              (e.verdict # Inverted) =
                  (BothTimes(e.path, older[1]) /\ ModTime(e.path)[1] < ModTime(older[1])[1])

C8_Witness ==
    /\ pc = "exited"
    /\ Active = {"n"}
    /\ ~Inverted
    /\ newer # None
    /\ BothTimes(paths[1], newer[1])
    /\ ModTime(paths[1]) = ModTime(newer[1])
    /\ Stat(paths[1])[1].len # Stat(newer[1])[1].len
    /\ Len(evaluated) = 1
    /\ ~evaluated[1].verdict

MetadataTests == {"b", "c", "d", "f", "g", "n", "o", "p", "r", "s", "u", "w", "x"}

\* C9: for an entry whose metadata query fails the tests b c d e f g n o p r
\* s u w x are false, while a is decided by the name and h by the link check
\* alone; the run is not aborted: unless quiet mode ended it, every candidate
\* is processed and the exit status is 0 or 1.
C9_MetadataFailureIsFalse ==
    /\ \A i \in 1..Len(evaluated) :
           LET e == evaluated[i] IN
           meta(e.path) = None =>
               /\ \A f \in MetadataTests \cup {"e"} : ~FlagTest(f, e.path, newer, older)
               /\ FlagTest("a", e.path, newer, older) =
                      (LastComponent(e.path) # <<>> /\ Head(LastComponent(e.path)) = ".")
               /\ FlagTest("h", e.path, newer, older) =
                      (e.path \in KnownPaths /\ Nodes[e.path].type = "symlink")
               /\ (Active \cap (MetadataTests \cup {"e"}) # {}) => (e.verdict = Inverted)
    /\ Parsed => status \in {-1, 0, 1}
    /\ (Parsed /\ pc = "exited" /\ ~QuietExit) =>
           /\ cur = Len(paths)
           /\ \A j \in 1..Len(paths) :
                  \E i \in 1..Len(evaluated) : evaluated[i].cand = paths[j]

C9_Witness ==
    /\ pc = "exited"
    /\ status = 0
    /\ Active = {"h"}
    /\ ~Inverted
    /\ Len(evaluated) = 2
    /\ meta(evaluated[1].path) = None
    /\ evaluated[1].verdict
    /\ meta(evaluated[2].path) = None
    /\ ~evaluated[2].verdict

\* C10: whenever the driver is between candidates or the process has ended,
\* no directory handle of a walk is open.
C10_WalkHandlesReleased ==
    pc \in {"loop", "exited"} => stack = <<>>

====
